---- MODULE Spec2Model ----
(***************************************************************************)
(* Row/index storage layer of table/tables/tables.go: AddRecord,           *)
(* UpdateRecord and RemoveRecord on one transaction, with the index, the   *)
(* key-value transaction and the buffered mutation scope they call.        *)
(***************************************************************************)
EXTENDS Integers, Sequences, FiniteSets, TLC

\* Handles are -1 (a signed integer primary key only) and 1..MaxHandle;
\* column values are NULL and 1..MaxVal.
MaxHandle == 2
MaxVal == 2
\* Number of table operations issued on the transaction.
MaxOps == 3
\* Number of those operations in which a step fails for a reason of the
\* store's or the evaluator's.
MaxFaults == 1

(***************************************************************************)
(* types.Datum: a kind and a payload.                                      *)
(***************************************************************************)
NullDatum == [k |-> "null", i |-> 0]
IntDatum(n) == [k |-> "int", i |-> n]
UintDatum(n) == [k |-> "uint", i |-> n]
IsNull(d) == d.k = "null"
GetInt64(d) == d.i

\* evaluator.GetTimeValue(ctx, evaluator.CurrentTimestamp, ...): a value no
\* caller supplies.
CurrentTimestamp == IntDatum(MaxVal + 1)

(***************************************************************************)
(* model.SchemaState                                                       *)
(***************************************************************************)
StateNone == "None"
StateDeleteOnly == "DeleteOnly"
StateWriteOnly == "WriteOnly"
StateWriteReorganization == "WriteReorganization"
StateDeleteReorganization == "DeleteReorganization"
StatePublic == "Public"

(***************************************************************************)
(* Errors: a code, and for a duplicate-key error the entry and key name of *)
(* its message.                                                            *)
(***************************************************************************)
NoErr == [code |-> "nil", entry |-> <<>>, key |-> ""]
ErrOther == [code |-> "other", entry |-> <<>>, key |-> ""]
ErrNotExist == [code |-> "NotExist", entry |-> <<>>, key |-> ""]
ErrPanic == [code |-> "panic", entry |-> <<>>, key |-> ""]
ErrKeyExists(entry, key) == [code |-> "KeyExists", entry |-> entry, key |-> key]
IsNil(e) == e.code = "nil"

(***************************************************************************)
(* Schemas. A column: table.Column; an index: model.IndexInfo; a table:    *)
(* the Table snapshot (Columns, indices, meta.PKIsHandle).                 *)
(***************************************************************************)
Column(id, off, state, pri, notnull, uns, hasdef, def, onupd) ==
  [ID |-> id, Offset |-> off, State |-> state, PriKey |-> pri,
   NotNull |-> notnull, Unsigned |-> uns, HasDefault |-> hasdef,
   DefaultValue |-> def, OnUpdateNow |-> onupd]

Index(id, name, offs, unique, primary, state) ==
  [ID |-> id, Name |-> name, Columns |-> offs, Unique |-> unique,
   Primary |-> primary, State |-> state]

RECURSIVE SelectSeq2(_, _, _)
\* The subsequence of s whose elements are in keep, in order.
SelectSeq2(s, keep, i) ==
  IF i > Len(s) THEN <<>>
  ELSE (IF s[i] \in keep THEN <<s[i]>> ELSE <<>>) \o SelectSeq2(s, keep, i + 1)

\* Table.Cols, first call: the Public columns, in column order.
publicColumnsOf(columns) ==
  SelectSeq2(columns, {c \in {columns[i] : i \in DOMAIN columns} :
                         c.State = StatePublic}, 1)

\* Table.writableCols, first call: every column but the DeleteOnly and
\* DeleteReorganization ones.
writableColumnsOf(columns) ==
  SelectSeq2(columns, {c \in {columns[i] : i \in DOMAIN columns} :
                         ~(c.State = StateDeleteOnly
                           \/ c.State = StateDeleteReorganization)}, 1)

\* newTable and TableFromMeta: the Table with its two column views.
newTable(name, pkIsHandle, columns, indices) ==
  [Name |-> name, PKIsHandle |-> pkIsHandle, Columns |-> columns,
   publicColumns |-> publicColumnsOf(columns),
   writableColumns |-> writableColumnsOf(columns),
   indices |-> indices]

\* (id int PK-is-handle, name); unique(name).
TablePK ==
  newTable("pk", TRUE,
    <<Column(1, 0, StatePublic, TRUE, TRUE, FALSE, FALSE, NullDatum, FALSE),
      Column(2, 1, StatePublic, FALSE, FALSE, FALSE, FALSE, NullDatum, FALSE)>>,
    <<Index(1, "name", <<1>>, TRUE, FALSE, StatePublic)>>)

\* (id int unsigned PK-is-handle, n not null); key(n).
TableUPK ==
  newTable("upk", TRUE,
    <<Column(1, 0, StatePublic, TRUE, TRUE, TRUE, FALSE, NullDatum, FALSE),
      Column(2, 1, StatePublic, FALSE, TRUE, FALSE, FALSE, NullDatum, FALSE)>>,
    <<Index(1, "n", <<1>>, FALSE, FALSE, StatePublic)>>)

\* (a not null, b default 1); unique(a), unique(b); handles from the
\* allocator.
TableUniq ==
  newTable("uniq", FALSE,
    <<Column(1, 0, StatePublic, FALSE, TRUE, FALSE, FALSE, NullDatum, FALSE),
      Column(2, 1, StatePublic, FALSE, FALSE, FALSE, TRUE, IntDatum(1), FALSE)>>,
    <<Index(1, "a", <<0>>, TRUE, FALSE, StatePublic),
      Index(2, "b", <<1>>, TRUE, FALSE, StatePublic)>>)

\* A schema change in flight: b is being added, c is being dropped, and
\* indices are in every kind of state.
TableDDL ==
  newTable("ddl", FALSE,
    <<Column(1, 0, StatePublic, FALSE, FALSE, FALSE, FALSE, NullDatum, FALSE),
      Column(2, 1, StateWriteOnly, FALSE, FALSE, FALSE, TRUE, IntDatum(1), FALSE),
      Column(3, 2, StateDeleteOnly, FALSE, FALSE, FALSE, FALSE, NullDatum, FALSE)>>,
    <<Index(1, "a_old", <<0>>, TRUE, FALSE, StateDeleteOnly),
      Index(2, "a", <<0>>, FALSE, FALSE, StatePublic),
      Index(3, "b", <<1>>, FALSE, FALSE, StateWriteReorganization)>>)

\* (v, ts on update current_timestamp); unique(v), key(ts).
TableTS ==
  newTable("ts", FALSE,
    <<Column(1, 0, StatePublic, FALSE, FALSE, FALSE, FALSE, NullDatum, FALSE),
      Column(2, 1, StatePublic, FALSE, FALSE, FALSE, FALSE, NullDatum, TRUE)>>,
    <<Index(1, "v", <<0>>, TRUE, FALSE, StatePublic),
      Index(2, "ts", <<1>>, FALSE, FALSE, StatePublic)>>)

\* (a not null, u on update current_timestamp being added: WriteOnly); key(a).
TableWO ==
  newTable("wo", FALSE,
    <<Column(1, 0, StatePublic, FALSE, TRUE, FALSE, FALSE, NullDatum, FALSE),
      Column(2, 1, StateWriteOnly, FALSE, FALSE, FALSE, FALSE, NullDatum, TRUE)>>,
    <<Index(1, "a", <<0>>, FALSE, FALSE, StatePublic)>>)

\* (d being dropped: DeleteOnly, at the first offset; a); key(a).
TableDrop ==
  newTable("drop", FALSE,
    <<Column(1, 0, StateDeleteOnly, FALSE, FALSE, FALSE, FALSE, NullDatum, FALSE),
      Column(2, 1, StatePublic, FALSE, FALSE, FALSE, FALSE, NullDatum, FALSE)>>,
    <<Index(1, "a", <<1>>, FALSE, FALSE, StatePublic)>>)

TableSet ==
  {TablePK, TableUPK, TableUniq, TableDDL, TableTS, TableWO, TableDrop}

(***************************************************************************)
(* TableFromMeta: the Table of a model.TableInfo, or an error.             *)
(***************************************************************************)
ErrTableStateCantNone == [code |-> "TableStateCantNone", entry |-> <<>>, key |-> ""]
ErrColumnStateCantNone == [code |-> "ColumnStateCantNone", entry |-> <<>>, key |-> ""]
ErrIndexStateCantNone == [code |-> "IndexStateCantNone", entry |-> <<>>, key |-> ""]

\* The nil table.Table returned with an error.
NoTable == newTable("", FALSE, <<>>, <<>>)

\* model.TableInfo
TableInfo(name, state, pkIsHandle, columns, indices) ==
  [Name |-> name, State |-> state, PKIsHandle |-> pkIsHandle,
   Columns |-> columns, Indices |-> indices]

\* The metadata of a table that is Public.
MetaOf(t) == TableInfo(t.Name, StatePublic, t.PKIsHandle, t.Columns, t.indices)

\* Metadata of (id, name) with the table, a column or an index in state None.
MetaTableNone == [MetaOf(TablePK) EXCEPT !.State = StateNone]
MetaColumnNone == [MetaOf(TablePK) EXCEPT !.Columns[2].State = StateNone]
MetaIndexNone == [MetaOf(TablePK) EXCEPT !.Indices[1].State = StateNone]

MetaSet ==
  {MetaOf(t) : t \in TableSet}
  \cup {MetaTableNone, MetaColumnNone, MetaIndexNone}

\* A TableFromMeta that would not look at the indices' states (C18 tells the
\* two apart).
TableFromMetaColumnsOnly(m) ==
  IF m.State = StateNone THEN [err |-> ErrTableStateCantNone, t |-> NoTable]
  ELSE IF \E i \in DOMAIN m.Columns : m.Columns[i].State = StateNone
  THEN [err |-> ErrColumnStateCantNone, t |-> NoTable]
  ELSE [err |-> NoErr,
        t |-> newTable(m.Name, m.PKIsHandle, m.Columns, m.Indices)]

\* TableFromMeta(alloc, tblInfo)
TableFromMeta(m) ==
  IF m.State = StateNone THEN [err |-> ErrTableStateCantNone, t |-> NoTable]
  ELSE IF \E i \in DOMAIN m.Columns : m.Columns[i].State = StateNone
  THEN [err |-> ErrColumnStateCantNone, t |-> NoTable]
  ELSE IF \E i \in DOMAIN m.Indices : m.Indices[i].State = StateNone
  THEN [err |-> ErrIndexStateCantNone, t |-> NoTable]
  ELSE [err |-> NoErr,
        t |-> newTable(m.Name, m.PKIsHandle, m.Columns, m.Indices)]

\* Table.Cols
Cols(t) == t.publicColumns

\* Table.writableCols
writableCols(t) == t.writableColumns

\* Column.IsPKHandleColumn(tblInfo).
IsPKHandleColumn(col, t) == col.PriKey /\ t.PKIsHandle

(***************************************************************************)
(* Keys and values. A key is <<kind, a, b, vals>>: a record key is         *)
(* <<"r", handle, column id, <<>> >> (column id 0: the row lock), an index *)
(* key <<"i", index id, handle or 0, indexed values>>.                     *)
(***************************************************************************)
RecordKey(h, colID) == <<"r", h, colID, <<>> >>
LockKey(h) == RecordKey(h, 0)

\* tablecodec.EncodeValue / DecodeColumnValue: a type-tagged payload.
EncodeValue(d) ==
  CASE d.k = "null" -> <<"nil", 0>>
    [] d.k = "int" -> <<"varint", d.i>>
    [] d.k = "uint" -> <<"uvarint", d.i>>
DecodeColumnValue(b) ==
  CASE b[1] = "nil" -> NullDatum
    [] b[1] = "varint" -> IntDatum(b[2])
    [] b[1] = "uvarint" -> UintDatum(b[2])
    [] OTHER -> NullDatum

\* The row lock's value, []byte(txn.String()).
LockValue == <<"txn", 0>>
\* An index entry's value: the handle.
EncodeHandle(h) == <<"handle", h>>
\* A staged delete in a buffered mutation scope.
Tombstone == <<"del", 0>>

EmptyKV == [x \in {} |-> Tombstone]
KVSet(m, k, v) == [x \in (DOMAIN m) \cup {k} |-> IF x = k THEN v ELSE m[x]]
KVDel(m, k) == [x \in (DOMAIN m) \ {k} |-> m[x]]

(***************************************************************************)
(* The transaction and the buffered mutation scope (kv.BufferStore) over   *)
(* it. A store st is [txn, bs, nMut]: the transaction's content, the       *)
(* scope's staged writes, and the number of mutations issued so far. An    *)
(* operation goes through the scope (via = "bs") or to the transaction     *)
(* (via = "txn").                                                          *)
(***************************************************************************)
NewBufferStore(txn) == [txn |-> txn, bs |-> EmptyKV, nMut |-> 0]

\* Retriever.Get finds a value: the scope's own writes first, then the
\* transaction.
Has(st, via, k) ==
  IF via = "bs" /\ k \in DOMAIN st.bs
  THEN st.bs[k] # Tombstone
  ELSE k \in DOMAIN st.txn

Get(st, via, k) ==
  IF via = "bs" /\ k \in DOMAIN st.bs THEN st.bs[k] ELSE st.txn[k]

\* Mutator.Set
Set(st, via, k, v) ==
  IF via = "bs"
  THEN [st EXCEPT !.bs = KVSet(@, k, v), !.nMut = @ + 1]
  ELSE [st EXCEPT !.txn = KVSet(@, k, v), !.nMut = @ + 1]

\* Mutator.Delete. A strict store reports a key that is not there as
\* ErrNotExist; a lenient one records the delete whatever the key.
Delete(st, via, k, strict) ==
  IF strict /\ ~Has(st, via, k)
  THEN [err |-> ErrNotExist, st |-> st]
  ELSE [err |-> NoErr,
        st |-> IF via = "bs"
               THEN [st EXCEPT !.bs = KVSet(@, k, Tombstone), !.nMut = @ + 1]
               ELSE [st EXCEPT !.txn = KVDel(@, k), !.nMut = @ + 1]]

\* BufferStore.SaveTo(txn): every staged write and delete reaches the
\* transaction, or none does.
SaveTo(st, strict, fail) ==
  LET dels == {k \in DOMAIN st.bs : st.bs[k] = Tombstone}
      sets == (DOMAIN st.bs) \ dels
  IN IF fail THEN [err |-> ErrOther, txn |-> st.txn]
     ELSE IF strict /\ \E k \in dels : k \notin DOMAIN st.txn
     THEN [err |-> ErrNotExist, txn |-> st.txn]
     ELSE [err |-> NoErr,
           txn |-> [k \in ((DOMAIN st.txn) \ dels) \cup sets |->
                      IF k \in sets THEN st.bs[k] ELSE st.txn[k]]]

\* A release that would write the staged entries through to the transaction
\* (C19 tells the two apart).
ReleaseFlushing(st, txn) ==
  [txn |-> [k \in (DOMAIN txn) \cup {x \in DOMAIN st.bs : st.bs[x] # Tombstone}
              |-> IF k \in DOMAIN st.bs THEN st.bs[k] ELSE txn[k]],
   open |-> FALSE]

\* The deferred bs.Release() of a scope over a transaction that now holds
\* txn: the staged writes are dropped and the transaction is left as it is.
Release(st, txn) == [txn |-> txn, open |-> FALSE]

(***************************************************************************)
(* Index: entries from indexed values to a handle. A unique index keeps    *)
(* one entry per tuple of values; a non-unique one keeps the handle in the *)
(* key.                                                                    *)
(***************************************************************************)
GenIndexKey(idx, vals, h) == <<"i", idx.ID, IF idx.Unique THEN 0 ELSE h, vals>>

\* Index.FetchValues: the row's values at the index's column offsets.
FetchValues(idx, r) == [i \in DOMAIN idx.Columns |-> r[idx.Columns[i] + 1]]

\* Index.Create
IndexCreate(idx, st, via, vals, h, fail) ==
  LET key == GenIndexKey(idx, vals, h)
  IN IF fail THEN [err |-> ErrOther, st |-> st]
     ELSE IF idx.Unique /\ Has(st, via, key)
     THEN [err |-> ErrKeyExists(<<>>, ""), st |-> st]
     ELSE [err |-> NoErr, st |-> Set(st, via, key, EncodeHandle(h))]

\* Index.Delete
IndexDelete(idx, st, via, vals, h, strict, fail) ==
  IF fail THEN [err |-> ErrOther, st |-> st]
  ELSE Delete(st, via, GenIndexKey(idx, vals, h), strict)

\* Key order of encoded values: NULL first, then by number.
DatumOrd(d) == IF IsNull(d) THEN 0 - 2 ELSE d.i

RECURSIVE ValsLess(_, _, _)
ValsLess(u, v, i) ==
  IF i > Len(u) \/ i > Len(v) THEN Len(u) < Len(v)
  ELSE IF DatumOrd(u[i]) # DatumOrd(v[i]) THEN DatumOrd(u[i]) < DatumOrd(v[i])
  ELSE ValsLess(u, v, i + 1)

\* Order of two index keys of one index: by values, then by handle.
IndexKeyLess(k1, k2) ==
  IF k1[4] # k2[4] THEN ValsLess(k1[4], k2[4], 1) ELSE k1[3] < k2[3]

\* The keys a reader of the store sees.
VisibleKeys(st, via) ==
  {k \in (DOMAIN st.txn) \cup (DOMAIN st.bs) : Has(st, via, k)}

\* Index.Seek(vals) followed by iter.Next(): the handle of the first entry
\* at or after the values, if the index has one.
IndexSeek(idx, st, via, vals) ==
  LET from == GenIndexKey(idx, vals, 0)
      S == {k \in VisibleKeys(st, via) :
              k[1] = "i" /\ k[2] = idx.ID /\ ~IndexKeyLess(k, from)}
  IN IF S = {} THEN [found |-> FALSE, h |-> 0, vals |-> <<>>]
     ELSE LET k == CHOOSE x \in S : \A y \in S : x = y \/ IndexKeyLess(x, y)
          IN [found |-> TRUE,
              h |-> IF idx.Unique THEN Get(st, via, k)[2] ELSE k[3],
              vals |-> k[4]]

(***************************************************************************)
(* AddRecord                                                               *)
(***************************************************************************)
\* Table.genIndexKeyStr: the values as strings, NULL for a null.
genIndexKeyStr(colVals) ==
  [i \in DOMAIN colVals |->
     IF IsNull(colVals[i]) THEN "NULL" ELSE ToString(colVals[i].i)]

\* An addIndices that would return the new row's own handle with the
\* duplicate-key error (C2 tells the two apart).
dupHandleOwn(found, recordID) == recordID

\* The handle addIndices returns with a duplicate-key error: the one
\* iter.Next() read from the conflicting entry.
dupHandle(found, recordID) == found

RECURSIVE addIndicesLoop(_, _, _, _, _, _, _)
\* The loop of Table.addIndices over t.indices, from the i-th on. opt is the
\* transaction's PresumeKeyNotExistsError option (NoErr: not set).
addIndicesLoop(t, st, opt, recordID, r, fault, i) ==
  IF i > Len(t.indices) THEN [h |-> 0, err |-> NoErr, st |-> st, opt |-> opt]
  ELSE
    LET v == t.indices[i]
    IN IF v.State = StateDeleteOnly \/ v.State = StateDeleteReorganization
       THEN addIndicesLoop(t, st, opt, recordID, r, fault, i + 1)
       ELSE
         LET colVals == FetchValues(v, r)
             uniq == v.Unique \/ v.Primary
             dupKeyErr == IF uniq
                          THEN ErrKeyExists(genIndexKeyStr(colVals), v.Name)
                          ELSE NoErr
             opt1 == IF uniq THEN dupKeyErr ELSE opt
             cr == IndexCreate(v, st, "bs", colVals, recordID, fault = "create")
         IN IF ~IsNil(cr.err)
            THEN IF cr.err.code = "KeyExists"
                 THEN LET sk == IndexSeek(v, st, "bs", colVals)
                      IN IF ~sk.found
                         THEN [h |-> 0, err |-> ErrOther, st |-> st, opt |-> opt1]
                         ELSE [h |-> dupHandle(sk.h, recordID), err |-> dupKeyErr,
                               st |-> st,
                               opt |-> opt1]
                 ELSE [h |-> 0, err |-> cr.err, st |-> st, opt |-> opt1]
            ELSE addIndicesLoop(t, cr.st, NoErr, recordID, r, fault, i + 1)

\* An addIndices that would run the index loop before the handle probe (C8
\* tells the two apart).
addIndicesBodyProbeLast(t, st, opt, recordID, r, fault) ==
  LET lp == addIndicesLoop(t, st, opt, recordID, r, fault, 1)
      e == ErrKeyExists(<<ToString(recordID)>>, "PRIMARY")
  IN IF ~IsNil(lp.err) \/ ~t.PKIsHandle THEN lp
     ELSE IF fault = "get"
     THEN [h |-> 0, err |-> ErrOther, st |-> lp.st, opt |-> e]
     ELSE IF Has(lp.st, "txn", LockKey(recordID))
     THEN [h |-> recordID, err |-> e, st |-> lp.st, opt |-> e]
     ELSE [lp EXCEPT !.opt = NoErr]

\* Table.addIndices up to its return statement: the handle probe of a
\* PK-is-handle table, then the indices.
addIndicesBody(t, st, opt, recordID, r, fault) ==
  IF t.PKIsHandle
  THEN LET e == ErrKeyExists(<<ToString(recordID)>>, "PRIMARY")
       IN IF fault = "get"
          THEN [h |-> 0, err |-> ErrOther, st |-> st, opt |-> e]
          ELSE IF Has(st, "txn", LockKey(recordID))
          THEN [h |-> recordID, err |-> e, st |-> st, opt |-> e]
          ELSE addIndicesLoop(t, st, NoErr, recordID, r, fault, 1)
  ELSE addIndicesLoop(t, st, opt, recordID, r, fault, 1)

\* An addIndices without the deferred DelOption (C9 tells the two apart).
addIndicesNoDefer(t, st, opt, recordID, r, fault) ==
  addIndicesBody(t, st, opt, recordID, r, fault)

\* Table.addIndices: the body, then the deferred
\* txn.DelOption(kv.PresumeKeyNotExistsError).
addIndices(t, st, opt, recordID, r, fault) ==
  [addIndicesBody(t, st, opt, recordID, r, fault) EXCEPT !.opt = NoErr]

\* Table.LockRow(ctx, h, false): the row lock key, set on the transaction.
LockRow(st, h, fail) ==
  IF fail THEN [err |-> ErrOther, st |-> st]
  ELSE [err |-> NoErr, st |-> Set(st, "txn", LockKey(h), LockValue)]

\* A SetColValue that would store the encoding of NULL whatever the value
\* (C10 tells the two apart).
SetColValueNil(st, via, key, data, fail) ==
  IF fail THEN [err |-> ErrOther, st |-> st]
  ELSE [err |-> NoErr, st |-> Set(st, via, key, EncodeValue(NullDatum))]

\* SetColValue(rm, key, data)
SetColValue(st, via, key, data, fail) ==
  IF fail THEN [err |-> ErrOther, st |-> st]
  ELSE [err |-> NoErr, st |-> Set(st, via, key, EncodeValue(data))]

\* table.GetColDefaultValue: the column's default, NULL when it has none.
GetColDefaultValue(col) == IF col.HasDefault THEN col.DefaultValue ELSE NullDatum

\* table.CastValue: the value in the column's type.
CastValue(d, col) ==
  IF IsNull(d) THEN d
  ELSE IF col.Unsigned THEN UintDatum(d.i) ELSE IntDatum(d.i)

\* An AddRecord that would store every value (C11 tells the two apart).
skipNullNever(col, d) == FALSE

\* Table.AddRecord: a null in a column without default takes no record key.
skipNull(col, d) == ~col.HasDefault /\ IsNull(d)

\* Whether the column is being added: WriteOnly or WriteReorganization.
inReorg(col) ==
  col.State = StateWriteOnly \/ col.State = StateWriteReorganization

\* An AddRecord that would store the caller's value in every column (C22
\* tells the two apart).
addValueCallers(col, d) == d

\* Table.AddRecord: the value stored for a column, the default cast to the
\* column's type for a column being added and the caller's otherwise.
addValue(col, d) ==
  IF inReorg(col) THEN CastValue(GetColDefaultValue(col), col) ELSE d

RECURSIVE addColumns(_, _, _, _, _, _)
\* The column loop of Table.AddRecord over writableCols, from the i-th on.
addColumns(t, st, recordID, r, fault, i) ==
  IF i > Len(writableCols(t)) THEN [err |-> NoErr, st |-> st]
  ELSE
    LET col == writableCols(t)[i]
    IN IF IsPKHandleColumn(col, t)
       THEN addColumns(t, st, recordID, r, fault, i + 1)
       ELSE IF skipNull(col, r[col.Offset + 1])
       THEN addColumns(t, st, recordID, r, fault, i + 1)
       ELSE
         IF inReorg(col) /\ (fault = "default" \/ fault = "cast")
         THEN [err |-> ErrOther, st |-> st]
         ELSE LET sc == SetColValue(st, "txn", RecordKey(recordID, col.ID),
                                    addValue(col, r[col.Offset + 1]),
                                    fault = "set")
              IN IF ~IsNil(sc.err) THEN [err |-> sc.err, st |-> st]
                 ELSE addColumns(t, sc.st, recordID, r, fault, i + 1)

\* What a table operation leaves and returns: the transaction's content, the
\* allocator's last handle, the transaction's option, the returned handle and
\* error; the scope's staged writes when it was released, the number of
\* mutations issued, and the option's value when the row was locked.
OpResult(txn, alloc, opt, h, err, st, locked, optAtLock) ==
  [txn |-> Release(st, txn).txn, alloc |-> alloc, opt |-> opt, h |-> h,
   err |-> err, staged |-> st.bs, scopeOpen |-> Release(st, txn).open,
   nMut |-> st.nMut, locked |-> locked, optAtLock |-> optAtLock]

\* The first Public column that is the PK-is-handle column, 0 if none.
pkHandleCol(t) ==
  LET pk == {i \in DOMAIN Cols(t) : IsPKHandleColumn(Cols(t)[i], t)}
  IN IF pk = {} THEN 0 ELSE CHOOSE i \in pk : \A j \in pk : i <= j

\* Table.AddRecord once the scope has been merged: recordID on success.
addRecordSaved(alloc, opt, recordID, st, sv) ==
  OpResult(sv.txn, alloc, opt, IF IsNil(sv.err) THEN recordID ELSE 0, sv.err,
           st, TRUE, opt)

\* Table.AddRecord after the column loop: bs.SaveTo(txn).
addRecordColumnsSet(alloc, opt, strict, recordID, fault, ac) ==
  IF ~IsNil(ac.err)
  THEN OpResult(ac.st.txn, alloc, opt, 0, ac.err, ac.st, TRUE, opt)
  ELSE addRecordSaved(alloc, opt, recordID, ac.st,
                      SaveTo(ac.st, strict, fault = "save"))

\* Table.AddRecord after t.LockRow: the column loop.
addRecordLocked(t, alloc, opt, strict, recordID, r, fault, lk) ==
  IF ~IsNil(lk.err)
  THEN OpResult(lk.st.txn, alloc, opt, 0, lk.err, lk.st, FALSE, NoErr)
  ELSE addRecordColumnsSet(alloc, opt, strict, recordID, fault,
                           addColumns(t, lk.st, recordID, r, fault, 1))

\* Table.AddRecord after t.addIndices: the handle and the error go back to
\* the caller, or the row is locked.
addRecordIndexed(t, alloc, strict, recordID, r, fault, ai) ==
  IF ~IsNil(ai.err)
  THEN OpResult(ai.st.txn, alloc, ai.opt, ai.h, ai.err, ai.st, FALSE, NoErr)
  ELSE addRecordLocked(t, alloc, ai.opt, strict, recordID, r, fault,
                       LockRow(ai.st, recordID, fault = "lock"))

\* Table.AddRecord once the handle is known: the scope, then addIndices.
addRecordWithID(t, txn, opt, alloc, strict, recordID, r, fault) ==
  addRecordIndexed(t, alloc, strict, recordID, r, fault,
                   addIndices(t, NewBufferStore(txn), opt, recordID, r, fault))

\* Table.AddRecord(ctx, r)
AddRecord(t, txn, opt, alloc, strict, r, fault) ==
  IF pkHandleCol(t) # 0
  THEN addRecordWithID(t, txn, opt, alloc, strict,
                       GetInt64(r[Cols(t)[pkHandleCol(t)].Offset + 1]), r, fault)
  ELSE IF fault = "alloc"
  THEN OpResult(txn, alloc, opt, 0, ErrOther, NewBufferStore(txn), FALSE, NoErr)
  ELSE addRecordWithID(t, txn, opt, alloc + 1, strict, alloc + 1, r, fault)

(***************************************************************************)
(* UpdateRecord                                                            *)
(***************************************************************************)
\* table.FindOnUpdateCols(t.writableCols()): indices into writableCols.
FindOnUpdateCols(t) ==
  {i \in DOMAIN writableCols(t) : writableCols(t)[i].OnUpdateNow}

RECURSIVE setOnUpdateData(_, _, _, _, _)
\* Table.setOnUpdateData over the writable columns, from the i-th on.
\* data[col.Offset] outside the buffer is a run-time panic.
setOnUpdateData(t, touched, data, fault, i) ==
  IF i > Len(writableCols(t))
  THEN [err |-> NoErr, data |-> data, touched |-> touched]
  ELSE
    LET col == writableCols(t)[i]
    IN IF i \notin FindOnUpdateCols(t) \/ col.Offset \in touched
       THEN setOnUpdateData(t, touched, data, fault, i + 1)
       ELSE IF fault = "now"
       THEN [err |-> ErrOther, data |-> data, touched |-> touched]
       ELSE IF col.Offset + 1 > Len(data)
       THEN [err |-> ErrPanic, data |-> data, touched |-> touched]
       ELSE setOnUpdateData(t, touched \cup {col.Offset},
                            [data EXCEPT ![col.Offset + 1] = CurrentTimestamp],
                            fault, i + 1)

\* Column writes of UpdateRecord going to the transaction (C7 tells the two
\* apart).
setNewDataViaTxn == "txn"

\* Where UpdateRecord's column writes go: t.setNewData(bs, ...), the scope.
setNewDataVia == "bs"

RECURSIVE setNewData(_, _, _, _, _, _, _)
\* Table.setNewData over t.Cols(), from the i-th on.
setNewData(t, st, h, touched, data, fault, i) ==
  IF i > Len(Cols(t)) THEN [err |-> NoErr, st |-> st]
  ELSE
    LET col == Cols(t)[i]
    IN IF col.Offset \notin touched
       THEN setNewData(t, st, h, touched, data, fault, i + 1)
       ELSE IF col.Offset + 1 > Len(data)
       THEN [err |-> ErrPanic, st |-> st]
       ELSE LET sc == SetColValue(st, setNewDataVia, RecordKey(h, col.ID),
                                  data[col.Offset + 1], fault = "set")
            IN IF ~IsNil(sc.err) THEN [err |-> sc.err, st |-> st]
               ELSE setNewData(t, sc.st, h, touched, data, fault, i + 1)

\* Table.removeRowIndex
removeRowIndex(st, h, vals, idx, strict, fail) ==
  IndexDelete(idx, st, "bs", vals, h, strict, fail)

\* A buildIndexForRow that would create the entry in an index of any state
\* (C23 tells the two apart).
buildIndexForRowAnyState(st, h, vals, idx, fail) ==
  IndexCreate(idx, st, "bs", vals, h, fail)

\* Table.buildIndexForRow
buildIndexForRow(st, h, vals, idx, fail) ==
  IF idx.State = StateDeleteOnly \/ idx.State = StateDeleteReorganization
  THEN [err |-> NoErr, st |-> st]
  ELSE IndexCreate(idx, st, "bs", vals, h, fail)

\* Whether every column offset of the index is inside the row.
offsetsInside(idx, r) == \A i \in DOMAIN idx.Columns : idx.Columns[i] + 1 <= Len(r)

\* The error rebuildIndices goes on with after removeRowIndex: the statement
\* is "if t.removeRowIndex(...); err != nil", which tests the err of the
\* FetchValues before it and drops the one removeRowIndex returns.
errAfterRemoveRowIndex(fetchErr, removeErr) == fetchErr

\* A loop body that would not skip an index without a touched column but
\* delete its old entry (C5 tells the two apart).
rebuildIndexNoSkip(st, h, idx, idxTouched, oldData, newData, strict, fault) ==
  IF ~offsetsInside(idx, oldData) THEN [err |-> ErrOther, st |-> st]
  ELSE
    LET oldVs == FetchValues(idx, oldData)
        rm == removeRowIndex(st, h, oldVs, idx, strict, fault = "idel")
    IN IF ~idxTouched THEN [err |-> NoErr, st |-> rm.st]
       ELSE IF ~offsetsInside(idx, newData)
       THEN [err |-> ErrOther, st |-> rm.st]
       ELSE buildIndexForRow(rm.st, h, FetchValues(idx, newData), idx,
                             fault = "create")

\* The body of the loop of Table.rebuildIndices for one index: nothing for
\* an index no touched column belongs to; for the others the old entry is
\* deleted and the new one created.
rebuildIndex(st, h, idx, idxTouched, oldData, newData, strict, fault) ==
  IF ~idxTouched THEN [err |-> NoErr, st |-> st]
  ELSE IF ~offsetsInside(idx, oldData) THEN [err |-> ErrOther, st |-> st]
  ELSE
    LET oldVs == FetchValues(idx, oldData)
        rm == removeRowIndex(st, h, oldVs, idx, strict, fault = "idel")
        err1 == errAfterRemoveRowIndex(NoErr, rm.err)
    IN IF ~IsNil(err1) THEN [err |-> err1, st |-> rm.st]
       ELSE IF ~offsetsInside(idx, newData)
       THEN [err |-> ErrOther, st |-> rm.st]
       ELSE buildIndexForRow(rm.st, h, FetchValues(idx, newData), idx,
                             fault = "create")

\* Whether an index has a touched column.
indexTouched(idx, touched) ==
  \E j \in DOMAIN idx.Columns : idx.Columns[j] \in touched

RECURSIVE rebuildIndices(_, _, _, _, _, _, _, _, _)
\* Table.rebuildIndices over t.Indices(), from the i-th on.
rebuildIndices(t, st, h, touched, oldData, newData, strict, fault, i) ==
  IF i > Len(t.indices) THEN [err |-> NoErr, st |-> st]
  ELSE
    LET rb == rebuildIndex(st, h, t.indices[i],
                           indexTouched(t.indices[i], touched),
                           oldData, newData, strict, fault)
    IN IF ~IsNil(rb.err) THEN rb
       ELSE rebuildIndices(t, rb.st, h, touched, oldData, newData, strict,
                           fault, i + 1)

\* What UpdateRecord leaves and returns; touched is the caller's map, which
\* setOnUpdateData writes to.
UpdateResult(txn, err, st, touched, data) ==
  [txn |-> Release(st, txn).txn, err |-> err, staged |-> st.bs,
   scopeOpen |-> Release(st, txn).open, nMut |-> st.nMut,
   touched |-> touched, data |-> data]

\* Table.UpdateRecord once the scope has been merged.
updateRecordSaved(st, touched, data, sv) ==
  UpdateResult(sv.txn, sv.err, st, touched, data)

\* Table.UpdateRecord after t.rebuildIndices: bs.SaveTo(txn).
updateRecordRebuilt(strict, fault, touched, data, rb) ==
  IF ~IsNil(rb.err)
  THEN UpdateResult(rb.st.txn, rb.err, rb.st, touched, data)
  ELSE updateRecordSaved(rb.st, touched, data,
                         SaveTo(rb.st, strict, fault = "save"))

\* Table.UpdateRecord after t.setNewData: t.rebuildIndices.
updateRecordSet(t, strict, h, oldData, fault, touched, data, sn) ==
  IF ~IsNil(sn.err)
  THEN UpdateResult(sn.st.txn, sn.err, sn.st, touched, data)
  ELSE updateRecordRebuilt(strict, fault, touched, data,
         rebuildIndices(t, sn.st, h, touched, oldData, data, strict, fault, 1))

\* Table.UpdateRecord after t.setOnUpdateData: the scope, then t.setNewData.
updateRecordOnUpdate(t, txn, strict, h, oldData, fault, ou) ==
  IF ~IsNil(ou.err)
  THEN UpdateResult(txn, ou.err, NewBufferStore(txn), ou.touched, ou.data)
  ELSE updateRecordSet(t, strict, h, oldData, fault, ou.touched, ou.data,
         setNewData(t, NewBufferStore(txn), h, ou.touched, ou.data, fault, 1))

\* Table.UpdateRecord(ctx, h, oldData, newData, touched); currentData is
\* newData copied into a buffer of len(t.writableCols()) datums.
UpdateRecord(t, txn, strict, h, oldData, newData, touched, fault) ==
  updateRecordOnUpdate(t, txn, strict, h, oldData, fault,
    setOnUpdateData(t, touched,
      [i \in 1..Len(writableCols(t)) |->
         IF i <= Len(newData) THEN newData[i] ELSE NullDatum],
      fault, 1))

(***************************************************************************)
(* RemoveRecord                                                            *)
(***************************************************************************)
\* A removal that would skip no error (C12 tells the two apart).
toleratedNever(state, err) == FALSE

\* Table.removeRowData / removeRowIndices: ErrNotExist for a column or index
\* that is not Public is skipped.
tolerated(state, err) == state # StatePublic /\ err.code = "NotExist"

RECURSIVE removeColumns(_, _, _, _, _, _)
\* The column loop of Table.removeRowData over t.Columns, from the i-th on.
removeColumns(t, st, h, strict, fault, i) ==
  IF i > Len(t.Columns) THEN [err |-> NoErr, st |-> st]
  ELSE
    LET col == t.Columns[i]
        d == IF fault = "delcol" THEN [err |-> ErrOther, st |-> st]
             ELSE Delete(st, "txn", RecordKey(h, col.ID), strict)
    IN IF ~IsNil(d.err)
       THEN IF tolerated(col.State, d.err)
            THEN removeColumns(t, st, h, strict, fault, i + 1)
            ELSE [err |-> d.err, st |-> st]
       ELSE removeColumns(t, d.st, h, strict, fault, i + 1)

\* Table.removeRowData
removeRowData(t, st, h, strict, fault) ==
  LET lk == LockRow(st, h, fault = "lock")
  IN IF ~IsNil(lk.err) THEN lk
     ELSE LET rc == removeColumns(t, lk.st, h, strict, fault, 1)
          IN IF ~IsNil(rc.err) THEN rc
             ELSE IF fault = "dellock" THEN [err |-> ErrOther, st |-> rc.st]
             ELSE Delete(rc.st, "txn", LockKey(h), strict)

RECURSIVE removeRowIndices(_, _, _, _, _, _, _)
\* Table.removeRowIndices over t.indices, from the i-th on.
removeRowIndices(t, st, h, rec, strict, fault, i) ==
  IF i > Len(t.indices) THEN [err |-> NoErr, st |-> st]
  ELSE
    LET v == t.indices[i]
    IN IF ~offsetsInside(v, rec)
       THEN removeRowIndices(t, st, h, rec, strict, fault, i + 1)
       ELSE
         LET d == IndexDelete(v, st, "txn", FetchValues(v, rec), h, strict,
                              fault = "delidx")
         IN IF ~IsNil(d.err)
            THEN IF tolerated(v.State, d.err)
                 THEN removeRowIndices(t, st, h, rec, strict, fault, i + 1)
                 ELSE [err |-> d.err, st |-> st]
            ELSE removeRowIndices(t, d.st, h, rec, strict, fault, i + 1)

\* Table.RemoveRecord(ctx, h, r)
RemoveRecord(t, txn, strict, h, r, fault) ==
  LET rd == removeRowData(t, NewBufferStore(txn), h, strict, fault)
  IN IF ~IsNil(rd.err) THEN rd
     ELSE removeRowIndices(t, rd.st, h, r, strict, fault, 1)

(***************************************************************************)
(* Row lookup                                                              *)
(***************************************************************************)
ErrColumnStateNonPublic ==
  [code |-> "ColumnStateNonPublic", entry |-> <<>>, key |-> ""]

\* A nil *table.Column in cols.
NilColumn == Column(0, 0, StateNone, FALSE, FALSE, FALSE, FALSE, NullDatum, FALSE)

\* A RowWithCols that would read a column in any state (C15 tells the two
\* apart).
readableAlways(col) == TRUE

\* Table.RowWithCols: only a Public column is read.
readable(col) == col.State = StatePublic

\* A RowWithCols that would take every absent key for NULL (C16 tells the
\* two apart).
missingIsNullAlways(col) == TRUE

\* Table.RowWithCols: an absent key is NULL unless the column has the
\* not-null flag.
missingIsNull(col) == ~col.NotNull

RECURSIVE rowWithColsLoop(_, _, _, _, _, _, _)
\* The loop of Table.RowWithCols over cols, from the i-th on; v is the result
\* so far, NULL (the zero Datum) where nothing was stored.
rowWithColsLoop(t, txn, h, cols, fault, v, i) ==
  IF i > Len(cols) THEN [err |-> NoErr, v |-> v]
  ELSE
    LET col == cols[i]
        k == RecordKey(h, col.ID)
    IN IF col = NilColumn
       THEN rowWithColsLoop(t, txn, h, cols, fault, v, i + 1)
       ELSE IF ~readable(col)
       THEN [err |-> ErrColumnStateNonPublic, v |-> <<>>]
       ELSE IF IsPKHandleColumn(col, t)
       THEN rowWithColsLoop(t, txn, h, cols, fault,
              [v EXCEPT ![i] = IF col.Unsigned THEN UintDatum(h) ELSE IntDatum(h)],
              i + 1)
       ELSE IF fault = "get"
       THEN [err |-> ErrOther, v |-> <<>>]
       ELSE IF k \notin DOMAIN txn
       THEN IF missingIsNull(col)
            THEN rowWithColsLoop(t, txn, h, cols, fault, v, i + 1)
            ELSE [err |-> ErrNotExist, v |-> <<>>]
       ELSE rowWithColsLoop(t, txn, h, cols, fault,
              [v EXCEPT ![i] = DecodeColumnValue(txn[k])], i + 1)

\* Table.RowWithCols(ctx, h, cols); fault "txn": ctx.GetTxn fails, fault
\* "get": txn.Get fails for a reason other than an absent key.
RowWithColsFaulty(t, txn, h, cols, fault) ==
  IF fault = "txn" THEN [err |-> ErrOther, v |-> <<>>]
  ELSE rowWithColsLoop(t, txn, h, cols, fault,
                       [i \in DOMAIN cols |-> NullDatum], 1)

\* Table.RowWithCols(ctx, h, cols) when the store does not fail.
RowWithCols(t, txn, h, cols) == RowWithColsFaulty(t, txn, h, cols, "none")

\* Table.Row(ctx, h)
Row(t, txn, h) == RowWithCols(t, txn, h, Cols(t))

(***************************************************************************)
(* Scans: the store's iterator, Seek and IterRecords                       *)
(***************************************************************************)
\* Where a key's prefix puts it: this table's index keys, then its record
\* keys, then the keys of the tables after it.
KeyRank(k) == IF k[1] = "i" THEN 0 ELSE IF k[1] = "r" THEN 1 ELSE 2

\* The store's key order: record keys by handle, then by column id.
KeyLess(k1, k2) ==
  IF KeyRank(k1) # KeyRank(k2) THEN KeyRank(k1) < KeyRank(k2)
  ELSE IF KeyRank(k1) = 1
  THEN k1[2] < k2[2] \/ (k1[2] = k2[2] /\ k1[3] < k2[3])
  ELSE IF KeyRank(k1) = 0
  THEN k1[2] < k2[2] \/ (k1[2] = k2[2] /\ IndexKeyLess(k1, k2))
  ELSE FALSE

\* The position of an iterator that is not Valid.
NoKey == <<"", 0, 0, <<>> >>

\* The least key of a set of keys, NoKey when there is none.
LeastKey(S) ==
  IF S = {} THEN NoKey
  ELSE CHOOSE x \in S : \A y \in S : x = y \/ KeyLess(x, y)

\* txn.Seek(from): the iterator at the first key at or after from.
txnSeek(kv, from) == LeastKey({k \in DOMAIN kv : ~KeyLess(k, from)})

\* kv.NextUntil(it, util.RowKeyPrefixFilter(rk)): the iterator moved past
\* the keys of the row h.
NextUntil(kv, it, h) ==
  LeastKey({k \in DOMAIN kv :
              ~KeyLess(k, it) /\ ~(k[1] = "r" /\ k[2] = h)})

\* A Seek that would not look at the key's prefix (C17 tells the two apart).
hasRecordPrefixAlways(key) == TRUE

\* it.Key().HasPrefix(t.RecordPrefix())
hasRecordPrefix(key) == key[1] = "r"

\* tablecodec.DecodeRowKey
DecodeRowKey(key) == key[2]

\* Table.FirstKey
FirstKey == RecordKey(0, 0)

\* What Seek returns.
SeekResult(h, found, err) == [h |-> h, found |-> found, err |-> err]

\* Table.Seek(ctx, h) once txn.Seek has returned the iterator it.
seekAt(it) ==
  IF it = NoKey \/ ~hasRecordPrefix(it)
  THEN SeekResult(0, FALSE, NoErr)
  ELSE SeekResult(DecodeRowKey(it), TRUE, NoErr)

\* Table.Seek(ctx, h). fault "txn": ctx.GetTxn fails. The error of txn.Seek
\* is dropped and the iterator used as returned: a nil iterator (fault
\* "seekNil") is a run-time panic, one that is not Valid (fault
\* "seekInvalid") reads as the end of the table.
Seek(t, txn, h, fault) ==
  IF fault = "txn" THEN SeekResult(0, FALSE, ErrOther)
  ELSE IF fault = "seekNil" THEN SeekResult(0, FALSE, ErrPanic)
  ELSE IF fault = "seekInvalid" THEN seekAt(NoKey)
  ELSE seekAt(txnSeek(txn, RecordKey(h, 0)))

RECURSIVE iterRecordsLoop(_, _, _, _, _)
\* The loop of Table.IterRecords with the iterator at it; visited are the
\* handles fn has been called with, and fn asks for no more at its stop-th
\* call (never when stop = 0). fn is given the handle and, for each of cols,
\* the datum tablecodec.DecodeRow finds in the value under the iterator.
iterRecordsLoop(kv, it, stop, fault, visited) ==
  IF it = NoKey \/ ~hasRecordPrefix(it) THEN [err |-> NoErr, visited |-> visited]
  ELSE IF fault = "decode" THEN [err |-> ErrOther, visited |-> visited]
  ELSE IF fault = "fn"
  THEN [err |-> ErrOther, visited |-> Append(visited, DecodeRowKey(it))]
  ELSE IF stop = Len(visited) + 1
  THEN [err |-> NoErr, visited |-> Append(visited, DecodeRowKey(it))]
  ELSE IF fault = "next"
  THEN [err |-> ErrOther, visited |-> Append(visited, DecodeRowKey(it))]
  ELSE iterRecordsLoop(kv, NextUntil(kv, it, DecodeRowKey(it)), stop, fault,
                       Append(visited, DecodeRowKey(it)))

\* Table.IterRecords(ctx, startKey, cols, fn)
IterRecords(t, txn, startKey, stop, fault) ==
  IF fault = "txn" \/ fault = "seek"
  THEN [err |-> ErrOther, visited |-> <<>>]
  ELSE iterRecordsLoop(txn, txnSeek(txn, startKey), stop, fault, <<>>)

(***************************************************************************)
(* The state: one table snapshot, one transaction, and the last call with  *)
(* what it returned.                                                       *)
(***************************************************************************)
VARIABLES
  meta,     \* the model.TableInfo given to TableFromMeta
  loadErr,  \* the error TableFromMeta returned
  tbl,      \* the Table TableFromMeta returned
  strict,   \* whether the store reports the delete of an absent key
  txn,      \* the transaction's keys and values
  opt,      \* the transaction's PresumeKeyNotExistsError option
  alloc,    \* the last handle the allocator issued
  nops,     \* operations issued so far
  nfaults,  \* operations in which a step was made to fail
  last      \* the call that has returned and not yet been consumed

vars == <<meta, loadErr, tbl, strict, txn, opt, alloc, nops, nfaults, last>>

\* The handles of rows: those the allocator issues, and a negative value of
\* a signed PK-is-handle column.
Handles == {0 - 1} \cup (1..MaxHandle)

\* The values a caller supplies at a column.
ColValues(t, col) ==
  IF IsPKHandleColumn(col, t)
  THEN IF col.Unsigned THEN {UintDatum(h) : h \in 1..MaxHandle}
       ELSE {IntDatum(h) : h \in Handles}
  ELSE IF col.State = StateDeleteOnly \/ col.State = StateDeleteReorganization
  THEN {NullDatum}
  ELSE {NullDatum} \cup {IntDatum(n) : n \in 1..MaxVal}

AllDatums ==
  {NullDatum} \cup {IntDatum(n) : n \in {0 - 1} \cup (1..(MaxVal + MaxHandle))}
  \cup {UintDatum(n) : n \in 1..MaxHandle}

\* Rows sized to the full column list.
RowsOf(t) ==
  {r \in [1..Len(t.Columns) -> AllDatums] :
     \A i \in 1..Len(t.Columns) : r[i] \in ColValues(t, t.Columns[i])}
RowsByName == [n \in {t.Name : t \in TableSet} |->
                 RowsOf(CHOOSE t \in TableSet : t.Name = n)]
Rows(t) == RowsByName[t.Name]

\* The row as stored under handle h, position by position: what the caller
\* of UpdateRecord and RemoveRecord read before the call.
StoredRow(t, kv, h) ==
  [i \in 1..Len(t.Columns) |->
     LET col == t.Columns[i]
     IN IF IsPKHandleColumn(col, t)
        THEN IF col.Unsigned THEN UintDatum(h) ELSE IntDatum(h)
        ELSE IF RecordKey(h, col.ID) \in DOMAIN kv
        THEN DecodeColumnValue(kv[RecordKey(h, col.ID)])
        ELSE NullDatum]

RowExists(kv, h) == LockKey(h) \in DOMAIN kv

PublicOffsets(t) == {Cols(t)[i].Offset : i \in DOMAIN Cols(t)}

\* The new rows of an update of old that assigns the touched columns.
NewRows(t, old, touched) ==
  {[i \in 1..Len(t.Columns) |-> IF (i - 1) \in touched THEN c[i] ELSE old[i]] :
     c \in Rows(t)}

\* The steps of each operation that can fail for a reason of the store's or
\* the evaluator's.
Faults(S, n) == IF n < MaxFaults THEN S ELSE {"none"}
Faulted(n, fault) == IF fault = "none" THEN n ELSE n + 1

AddFaults(t) ==
  {"none", "create", "lock", "set", "save"}
  \cup (IF t.PKIsHandle THEN {"get"} ELSE {"alloc"})
  \cup (IF \E i \in DOMAIN t.Columns :
             t.Columns[i].State \in {StateWriteOnly, StateWriteReorganization}
        THEN {"default", "cast"} ELSE {})
UpdateFaults(t) ==
  {"none", "set", "idel", "create", "save"}
  \cup (IF FindOnUpdateCols(t) # {} THEN {"now"} ELSE {})
RemoveFaults == {"none", "lock", "delcol", "dellock", "delidx"}

NoCall ==
  [op |-> "none", h |-> 0, r |-> <<>>, old |-> <<>>, touched |-> {},
   fault |-> "none", err |-> NoErr, ret |-> 0, pre |-> EmptyKV,
   staged |-> EmptyKV, nMut |-> 0, locked |-> FALSE, optAtLock |-> NoErr,
   touchedOut |-> {}, data |-> <<>>, cols |-> <<>>, v |-> <<>>,
   found |-> FALSE, visited |-> <<>>, from |-> <<>>, stop |-> 0,
   scopeOpen |-> FALSE]

\* A key of the table that follows in the store, and the store with it.
OtherTableKey == <<"t2", 0, 0, <<>> >>
OtherTableKV == [k \in {OtherTableKey} |-> <<"other", 0>>]

Init ==
  /\ meta \in MetaSet
  /\ loadErr = TableFromMeta(meta).err
  /\ tbl = TableFromMeta(meta).t
  /\ strict \in BOOLEAN
  /\ txn \in {EmptyKV, OtherTableKV}
  /\ opt = NoErr
  /\ alloc = 0
  /\ nops = 0
  /\ nfaults = 0
  /\ last = NoCall

\* AddRecord returns res to the caller.
AddRecordReturns(r, fault, res) ==
  /\ txn' = res.txn
  /\ opt' = res.opt
  /\ alloc' = res.alloc
  /\ last' = [NoCall EXCEPT !.op = "add", !.h = res.h, !.r = r,
                !.fault = fault, !.err = res.err, !.ret = res.h,
                !.pre = txn, !.staged = res.staged, !.nMut = res.nMut,
                !.scopeOpen = res.scopeOpen,
                !.locked = res.locked, !.optAtLock = res.optAtLock]
  /\ nfaults' = Faulted(nfaults, fault)

\* A call of AddRecord with a row and a failing step (or none).
AddRecordCall ==
  /\ IsNil(loadErr)
  /\ last.op = "none"
  /\ nops < MaxOps
  /\ tbl.PKIsHandle \/ alloc < MaxHandle
  /\ \E r \in Rows(tbl), fault \in Faults(AddFaults(tbl), nfaults) :
       AddRecordReturns(r, fault,
                        AddRecord(tbl, txn, opt, alloc, strict, r, fault))
  /\ nops' = nops + 1
  /\ UNCHANGED <<meta, loadErr, tbl, strict>>

\* UpdateRecord returns res to the caller.
UpdateRecordReturns(h, old, new, touched, fault, res) ==
  /\ txn' = res.txn
  /\ last' = [NoCall EXCEPT !.op = "update", !.h = h, !.r = new,
                !.old = old, !.touched = touched, !.fault = fault,
                !.err = res.err, !.pre = txn,
                !.staged = res.staged, !.nMut = res.nMut,
                !.scopeOpen = res.scopeOpen,
                !.touchedOut = res.touched, !.data = res.data]
  /\ nfaults' = Faulted(nfaults, fault)

\* UpdateRecord of the row h, read as old before the call.
UpdateRecordOf(h, old, touched, fault) ==
  \E new \in NewRows(tbl, old, touched) :
    UpdateRecordReturns(h, old, new, touched, fault,
      UpdateRecord(tbl, txn, strict, h, old, new, touched, fault))

\* A call of UpdateRecord on an existing row, with the row as stored for
\* oldData.
UpdateRecordCall ==
  /\ IsNil(loadErr)
  /\ last.op = "none"
  /\ nops < MaxOps
  /\ \E h \in Handles, touched \in SUBSET PublicOffsets(tbl),
        fault \in Faults(UpdateFaults(tbl), nfaults) :
       /\ RowExists(txn, h)
       /\ UpdateRecordOf(h, StoredRow(tbl, txn, h), touched, fault)
  /\ nops' = nops + 1
  /\ UNCHANGED <<meta, loadErr, tbl, strict, opt, alloc>>

\* RemoveRecord returns res to the caller.
RemoveRecordReturns(h, r, fault, res) ==
  /\ txn' = res.st.txn
  /\ last' = [NoCall EXCEPT !.op = "remove", !.h = h, !.r = r,
                !.fault = fault, !.err = res.err, !.pre = txn,
                !.nMut = res.st.nMut]
  /\ nfaults' = Faulted(nfaults, fault)

\* RemoveRecord of the row h, read as r before the call.
RemoveRecordOf(h, r, fault) ==
  RemoveRecordReturns(h, r, fault, RemoveRecord(tbl, txn, strict, h, r, fault))

\* A call of RemoveRecord on an existing row, with the row as stored.
RemoveRecordCall ==
  /\ IsNil(loadErr)
  /\ last.op = "none"
  /\ nops < MaxOps
  /\ \E h \in Handles, fault \in Faults(RemoveFaults, nfaults) :
       /\ RowExists(txn, h)
       /\ RemoveRecordOf(h, StoredRow(tbl, txn, h), fault)
  /\ nops' = nops + 1
  /\ UNCHANGED <<meta, loadErr, tbl, strict, opt, alloc>>

\* The steps of a read that can fail.
ReadFaults == {"none", "txn", "get"}

\* The cols a caller of RowWithCols passes: two of the table's columns or
\* nil.
ColSeqs(t) ==
  {<<c1, c2>> : c1, c2 \in {t.Columns[i] : i \in DOMAIN t.Columns} \cup {NilColumn}}

\* RowWithCols returns res to the caller.
RowWithColsReturns(h, cols, fault, res) ==
  last' = [NoCall EXCEPT !.op = "rowWithCols", !.h = h, !.cols = cols,
             !.fault = fault, !.err = res.err, !.v = res.v, !.pre = txn]

\* A call of RowWithCols, on any handle.
RowWithColsCall ==
  /\ IsNil(loadErr)
  /\ last.op = "none"
  /\ nops < MaxOps
  /\ \E h \in Handles, cols \in ColSeqs(tbl), fault \in ReadFaults :
       RowWithColsReturns(h, cols, fault,
                          RowWithColsFaulty(tbl, txn, h, cols, fault))
  /\ nops' = nops + 1
  /\ UNCHANGED <<meta, loadErr, tbl, strict, txn, opt, alloc, nfaults>>

SeekFaults == {"none", "txn", "seekNil", "seekInvalid"}

\* Seek returns res to the caller.
SeekReturns(h, fault, res) ==
  last' = [NoCall EXCEPT !.op = "seek", !.h = h, !.fault = fault,
             !.err = res.err, !.ret = res.h, !.found = res.found,
             !.pre = txn]

\* A call of Seek, from any handle.
SeekCall ==
  /\ IsNil(loadErr)
  /\ last.op = "none"
  /\ nops < MaxOps
  /\ \E h \in (0 - 1)..(MaxHandle + 1), fault \in SeekFaults :
       SeekReturns(h, fault, Seek(tbl, txn, h, fault))
  /\ nops' = nops + 1
  /\ UNCHANGED <<meta, loadErr, tbl, strict, txn, opt, alloc, nfaults>>

IterFaults == {"none", "txn", "seek", "decode", "fn", "next"}

\* IterRecords returns res to the caller.
IterRecordsReturns(startKey, stop, fault, res) ==
  last' = [NoCall EXCEPT !.op = "iter", !.from = startKey, !.stop = stop,
             !.fault = fault, !.err = res.err, !.visited = res.visited,
             !.pre = txn]

\* A call of IterRecords from the table's first key or from a row's key,
\* with a callback that wants every row or stops at the first.
IterRecordsCall ==
  /\ IsNil(loadErr)
  /\ last.op = "none"
  /\ nops < MaxOps
  /\ \E startKey \in {FirstKey, RecordKey(MaxHandle, 0)}, stop \in {0, 1},
        fault \in IterFaults :
       IterRecordsReturns(startKey, stop, fault,
                          IterRecords(tbl, txn, startKey, stop, fault))
  /\ nops' = nops + 1
  /\ UNCHANGED <<meta, loadErr, tbl, strict, txn, opt, alloc, nfaults>>

\* The caller takes the result of the call.
Return ==
  /\ last.op # "none"
  /\ last' = NoCall
  /\ UNCHANGED <<meta, loadErr, tbl, strict, txn, opt, alloc, nops, nfaults>>

Next ==
  \/ AddRecordCall
  \/ UpdateRecordCall
  \/ RemoveRecordCall
  \/ RowWithColsCall
  \/ SeekCall
  \/ IterRecordsCall
  \/ Return

Spec == Init /\ [][Next]_vars

(***************************************************************************)
(* Properties                                                              *)
(***************************************************************************)
\* The handle AddRecord works with: the PK-is-handle column's value.
RecordIDOf(t, r) == GetInt64(r[Cols(t)[pkHandleCol(t)].Offset + 1])

\* Index idx holds the entry from vals to h.
EntryFor(kv, idx, vals, h) ==
  /\ GenIndexKey(idx, vals, h) \in DOMAIN kv
  /\ kv[GenIndexKey(idx, vals, h)] = EncodeHandle(h)

\* The keys and values of one index.
IndexKV(kv, idx) ==
  [k \in {x \in DOMAIN kv : x[1] = "i" /\ x[2] = idx.ID} |-> kv[k]]

\* The entries of one index, as pairs of values and handle.
IndexEntries(kv, idx) ==
  {<<k[4], kv[k][2]>> : k \in {x \in DOMAIN kv : x[1] = "i" /\ x[2] = idx.ID}}

InDelete(state) ==
  state = StateDeleteOnly \/ state = StateDeleteReorganization

\* Everything a successful AddRecord(r) with handle h writes is there.
AddWritten(t, kv, h, r) ==
  /\ \A i \in DOMAIN writableCols(t) :
       LET col == writableCols(t)[i]
       IN (~IsPKHandleColumn(col, t)
           /\ ~(~col.HasDefault /\ IsNull(r[col.Offset + 1])))
          => RecordKey(h, col.ID) \in DOMAIN kv
  /\ \A i \in DOMAIN t.indices :
       ~InDelete(t.indices[i].State)
       => EntryFor(kv, t.indices[i], FetchValues(t.indices[i], r), h)

\* C1: AddRecord is all-or-nothing: after an error the transaction holds
\* exactly what it held before the call; after success all of the row's
\* column writes and index entries are present.
C1_AddRecordAllOrNothing ==
  last.op = "add"
  => IF IsNil(last.err)
     THEN AddWritten(tbl, txn, last.ret, last.r)
     ELSE txn = last.pre

\* The row h is stored with the values vals on the index's columns, and the
\* index holds its entry: what a successful AddRecord leaves until the row
\* is updated or removed.
HoldsRow(t, kv, idx, h, vals) ==
  /\ RowExists(kv, h)
  /\ FetchValues(idx, StoredRow(t, kv, h)) = vals
  /\ EntryFor(kv, idx, vals, h)

\* An AddRecord(r) on kv finds a duplicate before it reaches the i-th index:
\* at the handle probe, or at an earlier unique index.
EarlierConflict(t, kv, r, i) ==
  \/ t.PKIsHandle /\ RowExists(kv, RecordIDOf(t, r))
  \/ \E j \in 1..(i - 1) :
       /\ ~InDelete(t.indices[j].State)
       /\ t.indices[j].Unique
       /\ GenIndexKey(t.indices[j], FetchValues(t.indices[j], r), 0)
            \in DOMAIN kv

\* C2 as stated: with a row h1 stored and entered in a Public unique index,
\* an AddRecord (no step of which fails for another reason) of a row with the
\* same values on that index's columns fails with KeyExists and returns h1.
C2_DuplicateReturnsFirstHandle ==
  (last.op = "add" /\ last.fault = "none")
  => \A i \in DOMAIN tbl.indices, h1 \in Handles :
       (/\ tbl.indices[i].State = StatePublic
        /\ tbl.indices[i].Unique
        /\ HoldsRow(tbl, last.pre, tbl.indices[i], h1,
                    FetchValues(tbl.indices[i], last.r)))
       => (last.err.code = "KeyExists" /\ last.ret = h1)

\* C2 amended: such an AddRecord fails with KeyExists; it returns h1, with
\* the error naming this index, when no earlier check (the handle probe, an
\* earlier unique index) finds a duplicate, and otherwise the handle of a
\* stored row.
C2_DuplicateReturnsConflictingHandle ==
  (last.op = "add" /\ last.fault = "none")
  => \A i \in DOMAIN tbl.indices, h1 \in Handles :
       (/\ tbl.indices[i].State = StatePublic
        /\ tbl.indices[i].Unique
        /\ HoldsRow(tbl, last.pre, tbl.indices[i], h1,
                    FetchValues(tbl.indices[i], last.r)))
       => /\ last.err.code = "KeyExists"
          /\ txn = last.pre
          /\ RowExists(last.pre, last.ret)
          /\ ~EarlierConflict(tbl, last.pre, last.r, i)
             => /\ last.ret = h1
                /\ last.err = ErrKeyExists(
                     genIndexKeyStr(FetchValues(tbl.indices[i], last.r)),
                     tbl.indices[i].Name)

\* C2 witness: a duplicate on the second unique index alone, returning the
\* handle of the row that holds the values.
C2_Witness ==
  /\ last.op = "add" /\ last.fault = "none"
  /\ last.err.code = "KeyExists"
  /\ last.err.key = "b"
  /\ last.ret = 1
  /\ HoldsRow(tbl, last.pre, tbl.indices[2], 1,
              FetchValues(tbl.indices[2], last.r))
  /\ ~EarlierConflict(tbl, last.pre, last.r, 2)

\* The entries a Public index must hold for the rows of kv: one per handle
\* whose row-lock key exists, from the row's indexed values to the handle.
RowEntries(t, kv, idx) ==
  {<<FetchValues(idx, StoredRow(t, kv, h)), h>> :
     h \in {x \in Handles : RowExists(kv, x)}}

PublicIndices(t) ==
  {i \in DOMAIN t.indices : t.indices[i].State = StatePublic}

\* C3: in every state reached by AddRecord, UpdateRecord and RemoveRecord
\* calls (successful or not), the entries of every Public index are exactly
\* those of the rows whose row-lock key exists.
C3_RowAndIndexConsistent ==
  \A i \in PublicIndices(tbl) :
    IndexEntries(txn, tbl.indices[i]) = RowEntries(tbl, txn, tbl.indices[i])

\* C4: after a successful UpdateRecord that touches a column of a Public
\* index and changes the indexed values, the index holds no entry for h at
\* the old values and holds the entry for h at the new values.
C4_UpdateMovesIndexEntry ==
  (last.op = "update" /\ IsNil(last.err))
  => \A i \in PublicIndices(tbl) :
       LET idx == tbl.indices[i]
           oldVs == FetchValues(idx, last.old)
           newVs == FetchValues(idx, last.r)
       IN (indexTouched(idx, last.touched) /\ oldVs # newVs)
          => /\ ~EntryFor(txn, idx, oldVs, last.h)
             /\ EntryFor(txn, idx, newVs, last.h)

\* C5: UpdateRecord leaves the keys and values of every index none of whose
\* columns is touched (on-update columns included) as they were, whether it
\* succeeds or fails.
C5_UntouchedIndicesUnchanged ==
  last.op = "update"
  => \A i \in DOMAIN tbl.indices :
       ~indexTouched(tbl.indices[i], last.touchedOut)
       => IndexKV(txn, tbl.indices[i]) = IndexKV(last.pre, tbl.indices[i])

\* C5 witness: a successful update that rewrites one index and leaves alone
\* another one that has entries.
C5_Witness ==
  /\ last.op = "update" /\ IsNil(last.err)
  /\ \E i, j \in DOMAIN tbl.indices :
       /\ ~indexTouched(tbl.indices[i], last.touchedOut)
       /\ IndexKV(last.pre, tbl.indices[i]) # EmptyKV
       /\ indexTouched(tbl.indices[j], last.touchedOut)
       /\ IndexKV(txn, tbl.indices[j]) # IndexKV(last.pre, tbl.indices[j])

\* C6: when a step of rebuilding a touched index fails (here the delete of
\* the old entry or the creation of the new one), UpdateRecord returns an
\* error and nothing is merged into the transaction.
C6_IndexRebuildFailureAborts ==
  (/\ last.op = "update"
   /\ \/ /\ last.fault = "idel"
         /\ \E i \in DOMAIN tbl.indices :
              indexTouched(tbl.indices[i], last.touchedOut)
      \/ /\ last.fault = "create"
         /\ \E i \in DOMAIN tbl.indices :
              /\ indexTouched(tbl.indices[i], last.touchedOut)
              /\ ~InDelete(tbl.indices[i].State))
  => (~IsNil(last.err) /\ txn = last.pre)

\* C7: whenever UpdateRecord returns an error, the transaction's keys and
\* values are exactly those before the call.
C7_UpdateNoPartialVisibility ==
  (last.op = "update" /\ ~IsNil(last.err)) => txn = last.pre

\* C7 witness: a unique-index conflict on the second touched index, after
\* column writes and the first index's rewrite were staged.
C7_Witness ==
  /\ last.op = "update"
  /\ last.err.code = "KeyExists"
  /\ Len(tbl.indices) >= 2
  /\ indexTouched(tbl.indices[1], last.touchedOut)
  /\ indexTouched(tbl.indices[2], last.touchedOut)
  /\ \E k \in DOMAIN last.staged : k[1] = "r"
  /\ \E k \in DOMAIN last.staged : k[1] = "i" /\ k[2] = tbl.indices[1].ID

\* C8: on a PK-is-handle table, AddRecord of a row whose handle already has a
\* row fails with the duplicate-entry error carrying the handle and returns
\* the handle, before any write: nothing is staged, no mutation is issued,
\* no lock is set and the transaction is as before.
C8_HandleCollisionBeforeWrites ==
  (/\ last.op = "add"
   /\ tbl.PKIsHandle
   /\ last.fault # "get"
   /\ RowExists(last.pre, RecordIDOf(tbl, last.r)))
  => /\ last.err = ErrKeyExists(<<ToString(RecordIDOf(tbl, last.r))>>, "PRIMARY")
     /\ last.ret = RecordIDOf(tbl, last.r)
     /\ last.nMut = 0
     /\ last.staged = EmptyKV
     /\ ~last.locked
     /\ txn = last.pre

\* C8 witness: a handle collision of a row that no index rejects.
C8_Witness ==
  /\ last.op = "add"
  /\ tbl.PKIsHandle
  /\ last.fault = "none"
  /\ RowExists(last.pre, RecordIDOf(tbl, last.r))
  /\ \A i \in DOMAIN tbl.indices :
       GenIndexKey(tbl.indices[i], FetchValues(tbl.indices[i], last.r),
                   RecordIDOf(tbl, last.r)) \notin DOMAIN last.pre
  /\ last.err.key = "PRIMARY"

\* C9: the PresumeKeyNotExistsError option is unset whenever AddRecord has
\* returned, and was unset when the row lock of an AddRecord was set.
C9_HintNeverLeaks ==
  /\ opt = NoErr
  /\ (last.op = "add" /\ last.locked) => last.optAtLock = NoErr

\* C9 witness: an AddRecord that set the hint for a unique index, found the
\* duplicate there and returned with the hint cleared.
C9_Witness ==
  /\ last.op = "add"
  /\ last.err.code = "KeyExists"
  /\ last.err.key # "PRIMARY"
  /\ opt = NoErr

AllPublic(t) ==
  \A i \in DOMAIN t.Columns : t.Columns[i].State = StatePublic

\* A row with no NULL in a NOT NULL column.
ValidRow(t, r) ==
  \A i \in DOMAIN t.Columns : t.Columns[i].NotNull => ~IsNull(r[i])

\* C10: on a table whose columns are all Public, Row of the handle of a
\* successful AddRecord of a valid row returns the row.
C10_AddThenRowRoundTrip ==
  (/\ last.op = "add"
   /\ IsNil(last.err)
   /\ AllPublic(tbl)
   /\ ValidRow(tbl, last.r))
  => Row(tbl, txn, last.ret) = [err |-> NoErr, v |-> last.r]

\* C10 witness: a stored row with a NULL that was not written.
C10_Witness ==
  /\ last.op = "add" /\ IsNil(last.err)
  /\ AllPublic(tbl)
  /\ ValidRow(tbl, last.r)
  /\ \E i \in DOMAIN tbl.Columns :
       /\ IsNull(last.r[i])
       /\ RecordKey(last.ret, tbl.Columns[i].ID) \notin DOMAIN txn
  /\ \E i \in DOMAIN tbl.Columns :
       RecordKey(last.ret, tbl.Columns[i].ID) \in DOMAIN txn

\* C11 as stated: after a successful AddRecord(r) with handle h, every
\* writable column without default whose value in r is null has no record
\* key (h, c), and Row(h) succeeds and returns null at every such Public
\* column.
C11_SparseStorageReadsNull ==
  (last.op = "add" /\ IsNil(last.err))
  => \A i \in DOMAIN writableCols(tbl) :
       LET col == writableCols(tbl)[i]
       IN (~col.HasDefault /\ IsNull(last.r[col.Offset + 1])
           /\ ~IsPKHandleColumn(col, tbl))
          => /\ RecordKey(last.ret, col.ID) \notin DOMAIN txn
             /\ col.State = StatePublic
                => /\ IsNil(Row(tbl, txn, last.ret).err)
                   /\ \A j \in DOMAIN Cols(tbl) :
                        Cols(tbl)[j].ID = col.ID
                        => IsNull(Row(tbl, txn, last.ret).v[j])

\* C11 amended: such a column has no record key (h, c); Row(h) returns an
\* error when some such Public column is NOT NULL, and otherwise succeeds
\* and returns null at every such Public column.
C11_SparseStorage ==
  (last.op = "add" /\ IsNil(last.err))
  => /\ \A i \in DOMAIN writableCols(tbl) :
          LET col == writableCols(tbl)[i]
          IN (~col.HasDefault /\ IsNull(last.r[col.Offset + 1])
              /\ ~IsPKHandleColumn(col, tbl))
             => /\ RecordKey(last.ret, col.ID) \notin DOMAIN txn
                /\ (col.State = StatePublic /\ ~col.NotNull
                    /\ IsNil(Row(tbl, txn, last.ret).err))
                   => \A j \in DOMAIN Cols(tbl) :
                        Cols(tbl)[j].ID = col.ID
                        => IsNull(Row(tbl, txn, last.ret).v[j])
     /\ IsNil(Row(tbl, txn, last.ret).err)
        <=> ~\E j \in DOMAIN Cols(tbl) :
               /\ Cols(tbl)[j].NotNull
               /\ ~Cols(tbl)[j].HasDefault
               /\ ~IsPKHandleColumn(Cols(tbl)[j], tbl)
               /\ IsNull(last.r[Cols(tbl)[j].Offset + 1])

\* C11 witness: a row stored with a null in a nullable column without
\* default beside a column that was written, and read back.
C11_Witness ==
  /\ last.op = "add" /\ IsNil(last.err)
  /\ IsNil(Row(tbl, txn, last.ret).err)
  /\ \E i \in DOMAIN Cols(tbl) :
       /\ ~Cols(tbl)[i].HasDefault /\ ~Cols(tbl)[i].NotNull
       /\ ~IsPKHandleColumn(Cols(tbl)[i], tbl)
       /\ IsNull(last.r[Cols(tbl)[i].Offset + 1])
       /\ IsNull(Row(tbl, txn, last.ret).v[i])
  /\ \E k \in DOMAIN txn : k[1] = "r" /\ k[2] = last.ret /\ k[3] # 0

\* A Public column's record key, or a Public index's entry, of the row is
\* absent before the removal.
PublicKeyMissing(t, kv, h, r) ==
  \/ \E i \in DOMAIN t.Columns :
       /\ t.Columns[i].State = StatePublic
       /\ RecordKey(h, t.Columns[i].ID) \notin DOMAIN kv
  \/ \E i \in PublicIndices(t) :
       GenIndexKey(t.indices[i], FetchValues(t.indices[i], r), h)
         \notin DOMAIN kv

\* Nothing of the row h is left: no record key, no entry at r's values.
RowGone(t, kv, h, r) ==
  /\ \A k \in DOMAIN kv : ~(k[1] = "r" /\ k[2] = h)
  /\ \A i \in DOMAIN t.indices :
       GenIndexKey(t.indices[i], FetchValues(t.indices[i], r), h)
         \notin DOMAIN kv

\* C12: on a store that reports the delete of an absent key, a RemoveRecord
\* in which no step fails otherwise returns ErrNotExist exactly when the key
\* of a Public column or the entry of a Public index is absent; absent keys
\* of columns and indices that are not Public are skipped and the removal
\* goes on to the end.
C12_RemoveToleratesNonPublic ==
  (last.op = "remove" /\ last.fault = "none" /\ strict)
  => IF PublicKeyMissing(tbl, last.pre, last.h, last.r)
     THEN last.err = ErrNotExist
     ELSE IsNil(last.err) /\ RowGone(tbl, txn, last.h, last.r)

\* C12 witness: a removal that succeeds although the key of a column and
\* the entry of an index that are not Public were never written.
C12_Witness ==
  /\ last.op = "remove" /\ last.fault = "none" /\ strict
  /\ IsNil(last.err)
  /\ \E i \in DOMAIN tbl.Columns :
       /\ tbl.Columns[i].State # StatePublic
       /\ RecordKey(last.h, tbl.Columns[i].ID) \notin DOMAIN last.pre
  /\ \E i \in DOMAIN tbl.indices :
       /\ tbl.indices[i].State # StatePublic
       /\ GenIndexKey(tbl.indices[i], FetchValues(tbl.indices[i], last.r),
                      last.h) \notin DOMAIN last.pre
  /\ \E k \in DOMAIN last.pre : k[1] = "i" /\ k \notin DOMAIN txn

\* C13: whenever RemoveRecord returns an error, the transaction's keys and
\* values are exactly those before the call.
C13_RemoveNoPartialVisibility ==
  (last.op = "remove" /\ ~IsNil(last.err)) => txn = last.pre

\* Some part of the metadata is in state None.
HasNone(m) ==
  \/ m.State = StateNone
  \/ \E i \in DOMAIN m.Columns : m.Columns[i].State = StateNone
  \/ \E i \in DOMAIN m.Indices : m.Indices[i].State = StateNone

\* C18: TableFromMeta returns an error and no Table whenever the table, a
\* column or an index of the metadata is in state None; a Table it did
\* produce has no column and no index in state None.
C18_ConstructionRejectsNone ==
  /\ HasNone(meta) => (~IsNil(loadErr) /\ tbl = NoTable)
  /\ IsNil(loadErr) =>
       /\ \A i \in DOMAIN tbl.Columns : tbl.Columns[i].State # StateNone
       /\ \A i \in DOMAIN tbl.indices : tbl.indices[i].State # StateNone

\* The metadata has only an index in state None and construction failed
\* on it.
C18_Witness ==
  /\ meta = MetaIndexNone
  /\ loadErr = ErrIndexStateCantNone
  /\ tbl = NoTable

\* The column's record key of the row h holds the encoded datum d.
ColumnHolds(kv, h, col, d) ==
  /\ RecordKey(h, col.ID) \in DOMAIN kv
  /\ kv[RecordKey(h, col.ID)] = EncodeValue(d)

\* C20: after a successful UpdateRecord, every writable column whose offset
\* is in the touched set once the on-update columns have been added holds
\* the new value under the row's handle (the current timestamp for an
\* on-update column the caller did not touch, whatever its state).
C20_UpdateWritesEveryTouchedColumn ==
  (last.op = "update" /\ IsNil(last.err)) =>
    \A i \in DOMAIN writableCols(tbl) :
      writableCols(tbl)[i].Offset \in last.touchedOut =>
        ColumnHolds(txn, last.h, writableCols(tbl)[i],
                    last.data[writableCols(tbl)[i].Offset + 1])

\* The positions of cols holding a column (not nil) that is not Public.
NonPublicAt(cols) ==
  {i \in DOMAIN cols : cols[i] # NilColumn /\ cols[i].State # StatePublic}

\* The i-th of cols is a Public column, not the PK-is-handle one, whose
\* record key of the row h is absent from kv.
MissingAt(t, kv, h, cols, i) ==
  /\ cols[i] # NilColumn
  /\ cols[i].State = StatePublic
  /\ ~IsPKHandleColumn(cols[i], t)
  /\ RecordKey(h, cols[i].ID) \notin DOMAIN kv

\* RowWithCols fails before it looks at the i-th of cols: the transaction is
\* not to be had, or a Public column before the i-th cannot be read.
FailsBefore(t, kv, h, cols, fault, i) ==
  \/ fault = "txn"
  \/ \E j \in 1..(i - 1) :
       /\ cols[j] # NilColumn
       /\ cols[j].State = StatePublic
       /\ ~IsPKHandleColumn(cols[j], t)
       /\ \/ fault = "get"
          \/ cols[j].NotNull /\ RecordKey(h, cols[j].ID) \notin DOMAIN kv

\* Row reads t.Cols(), the Public columns only.
RowReadsPublicOnly ==
  IsNil(loadErr) =>
    \A i \in DOMAIN Cols(tbl) : Cols(tbl)[i].State = StatePublic

\* C15 as stated: RowWithCols returns ErrColumnStateNonPublic and no values
\* whenever cols contains a non-nil column that is not Public, whatever the
\* handle and the transaction hold; Row reads Public columns only.
C15_NonPublicReadIsNonPublicError ==
  /\ (last.op = "rowWithCols" /\ NonPublicAt(last.cols) # {}) =>
       (last.err = ErrColumnStateNonPublic /\ last.v = <<>>)
  /\ RowReadsPublicOnly

\* C15, amended: RowWithCols returns an error and no values whenever cols
\* contains a non-nil column that is not Public; the error is
\* ErrColumnStateNonPublic exactly when nothing fails before the first such
\* column is looked at (cols are taken in order, so ctx.GetTxn or a Public
\* column earlier in cols can fail first); Row reads Public columns only.
C15_NonPublicReadFails ==
  /\ (last.op = "rowWithCols" /\ NonPublicAt(last.cols) # {}) =>
       /\ ~IsNil(last.err)
       /\ last.v = <<>>
       /\ (last.err = ErrColumnStateNonPublic) <=>
            ~\E n \in NonPublicAt(last.cols) :
               /\ \A m \in NonPublicAt(last.cols) : n <= m
               /\ FailsBefore(tbl, last.pre, last.h, last.cols, last.fault, n)
  /\ RowReadsPublicOnly

\* RowWithCols was asked for a NOT NULL Public column whose key is absent
\* and then for a column that is not Public, and returned ErrNotExist.
C15_Witness ==
  /\ last.op = "rowWithCols"
  /\ last.fault = "none"
  /\ Len(last.cols) = 2
  /\ MissingAt(tbl, last.pre, last.h, last.cols, 1)
  /\ last.cols[1].NotNull
  /\ NonPublicAt(last.cols) = {2}
  /\ last.err = ErrNotExist
  /\ last.v = <<>>

\* C16: in RowWithCols without a store failure, a requested Public column
\* that is not the PK-is-handle column and whose record key is absent makes
\* the call return an error when it has the not-null flag and the call got
\* that far; when it is nullable the position holds NULL and the call goes
\* on exactly as if the column had not been asked for.
C16_MissingKey ==
  (last.op = "rowWithCols" /\ last.fault = "none") =>
    \A i \in DOMAIN last.cols :
      MissingAt(tbl, last.pre, last.h, last.cols, i) =>
        IF last.cols[i].NotNull
        THEN (~FailsBefore(tbl, last.pre, last.h, last.cols, "none", i)
              /\ \A j \in 1..(i - 1) : j \notin NonPublicAt(last.cols))
             => (last.err = ErrNotExist /\ last.v = <<>>)
        ELSE /\ IsNil(last.err) => last.v[i] = NullDatum
             /\ [err |-> last.err, v |-> last.v] =
                  RowWithCols(tbl, last.pre, last.h,
                              [last.cols EXCEPT ![i] = NilColumn])

\* RowWithCols found no key for a nullable column, gave NULL for it and
\* went on to read the stored value of the next column.
C16_Witness ==
  /\ last.op = "rowWithCols"
  /\ last.fault = "none"
  /\ Len(last.cols) = 2
  /\ MissingAt(tbl, last.pre, last.h, last.cols, 1)
  /\ ~last.cols[1].NotNull
  /\ RecordKey(last.h, last.cols[2].ID) \in DOMAIN last.pre
  /\ IsNil(last.err)
  /\ last.v[1] = NullDatum
  /\ last.v[2] # NullDatum

\* The handles at or after h that have a row in kv.
RowsFrom(kv, h) == {x \in Handles : x >= h /\ RowExists(kv, x)}

\* The handles of S in ascending order.
RECURSIVE Ascending(_)
Ascending(S) ==
  IF S = {} THEN <<>>
  ELSE LET m == CHOOSE x \in S : \A y \in S : x <= y
       IN <<m>> \o Ascending(S \ {m})

\* C14: with N rows in the table, IterRecords from the table's first key
\* with a callback that always asks for more calls it exactly N times, once
\* per row handle in strictly ascending order, and never for a key outside
\* the table's record prefix.
C14_ScanVisitsEveryRowAscending ==
  (last.op = "iter" /\ last.fault = "none" /\ last.from = FirstKey
   /\ last.stop = 0)
  => (IsNil(last.err)
      /\ last.visited = Ascending({x \in Handles : RowExists(last.pre, x)}))

SameAt(kv1, kv2, k) ==
  /\ k \in DOMAIN kv1 <=> k \in DOMAIN kv2
  /\ k \in DOMAIN kv1 => kv1[k] = kv2[k]

\* C19: the scope AddRecord or UpdateRecord opened is released when the
\* operation returns, on every exit path; after an error return no write
\* staged in it has reached the transaction.
C19_ScopeReleasedMergedOnSuccess ==
  (last.op = "add" \/ last.op = "update") =>
    /\ ~last.scopeOpen
    /\ ~IsNil(last.err) =>
         \A k \in DOMAIN last.staged : SameAt(txn, last.pre, k)

\* An operation returned an error with an entry staged in its scope that
\* the transaction does not hold.
C19_Witness ==
  /\ last.op = "add" \/ last.op = "update"
  /\ ~IsNil(last.err)
  /\ ~last.scopeOpen
  /\ \E k \in DOMAIN last.staged :
       last.staged[k] # Tombstone /\ k \notin DOMAIN txn

\* The record keys of kv that belong to a PK-is-handle column of t.
PKHandleKeys(t, kv) ==
  {k \in DOMAIN kv :
     /\ k[1] = "r"
     /\ \E i \in DOMAIN t.Columns :
          IsPKHandleColumn(t.Columns[i], t) /\ k[3] = t.Columns[i].ID}

\* C21: on a PK-is-handle table, whatever AddRecord and UpdateRecord calls
\* were made (an UpdateRecord touching the PK column among them), the
\* transaction holds no record key of the PK-is-handle column.
C21_PKHandleColumnHasNoKey ==
  IsNil(loadErr) => PKHandleKeys(tbl, txn) = {}

\* What kv holds at the key k.
Absent == <<"absent", 0>>
KeyContent(kv, k) == IF k \in DOMAIN kv THEN kv[k] ELSE Absent

\* The row r with the datum d at the column's offset.
RowWith(r, col, d) == [r EXCEPT ![col.Offset + 1] = d]

\* The transaction after the AddRecord of last with the row r instead, when
\* that call succeeds too.
AddRecordInstead(r) ==
  addRecordWithID(tbl, last.pre, opt, alloc, strict, last.ret, r, "none")

\* C22 as stated: after a successful AddRecord, the record key of a writable
\* column in WriteOnly or WriteReorganization state is absent or holds the
\* column's default cast to its type, and is the same whatever value the
\* caller supplies at the column's offset.
C22_ReorgColumnSameForEveryValue ==
  (last.op = "add" /\ IsNil(last.err)) =>
    \A i \in DOMAIN writableCols(tbl) :
      inReorg(writableCols(tbl)[i]) =>
        /\ KeyContent(txn, RecordKey(last.ret, writableCols(tbl)[i].ID))
             \in {Absent,
                  EncodeValue(CastValue(GetColDefaultValue(writableCols(tbl)[i]),
                                        writableCols(tbl)[i]))}
        /\ \A d \in ColValues(tbl, writableCols(tbl)[i]) :
             IsNil(AddRecordInstead(RowWith(last.r, writableCols(tbl)[i], d)).err)
             => KeyContent(AddRecordInstead(
                             RowWith(last.r, writableCols(tbl)[i], d)).txn,
                           RecordKey(last.ret, writableCols(tbl)[i].ID))
                = KeyContent(txn, RecordKey(last.ret, writableCols(tbl)[i].ID))

\* What AddRecord leaves at the key of a column being added, given the
\* caller's datum d: the default when there is one; without a default,
\* nothing for a null d and an encoded NULL otherwise.
ReorgContent(col, d) ==
  IF col.HasDefault
  THEN EncodeValue(CastValue(GetColDefaultValue(col), col))
  ELSE IF IsNull(d) THEN Absent
  ELSE EncodeValue(NullDatum)

\* C22, amended: after a successful AddRecord, the record key of such a
\* column holds the column's default cast to its type when the column has a
\* default; when it has none, the key is absent if the caller's value is
\* null and holds an encoded NULL if it is not. The caller's value is never
\* stored, and it matters only through being null or not.
C22_ReorgColumnGetsDefault ==
  (last.op = "add" /\ IsNil(last.err)) =>
    \A i \in DOMAIN writableCols(tbl) :
      inReorg(writableCols(tbl)[i]) =>
        KeyContent(txn, RecordKey(last.ret, writableCols(tbl)[i].ID))
        = ReorgContent(writableCols(tbl)[i],
                       last.r[writableCols(tbl)[i].Offset + 1])

\* AddRecord succeeded with a non-null value supplied for a column being
\* added that has no default, and the key holds an encoded NULL; with a
\* null supplied the key would be absent.
C22_Witness ==
  /\ last.op = "add"
  /\ IsNil(last.err)
  /\ \E i \in DOMAIN writableCols(tbl) :
       /\ inReorg(writableCols(tbl)[i])
       /\ ~writableCols(tbl)[i].HasDefault
       /\ ~IsNull(last.r[writableCols(tbl)[i].Offset + 1])
       /\ KeyContent(txn, RecordKey(last.ret, writableCols(tbl)[i].ID))
          = EncodeValue(NullDatum)
       /\ KeyContent(AddRecordInstead(
                       RowWith(last.r, writableCols(tbl)[i], NullDatum)).txn,
                     RecordKey(last.ret, writableCols(tbl)[i].ID)) = Absent

\* C23: an AddRecord or UpdateRecord call adds no entry to an index in
\* DeleteOnly or DeleteReorganization state: every entry of such an index
\* after the call was its entry before the call.
C23_NoEntryInDeleteIndex ==
  (last.op = "add" \/ last.op = "update") =>
    \A i \in DOMAIN tbl.indices :
      InDelete(tbl.indices[i].State) =>
        /\ DOMAIN IndexKV(txn, tbl.indices[i])
             \subseteq DOMAIN IndexKV(last.pre, tbl.indices[i])
        /\ \A k \in DOMAIN IndexKV(txn, tbl.indices[i]) : txn[k] = last.pre[k]

\* An UpdateRecord succeeded that changed the value of a column indexed by
\* a DeleteOnly index and by a Public one: the Public index got the new
\* entry and the DeleteOnly index got none.
C23_Witness ==
  /\ last.op = "update"
  /\ IsNil(last.err)
  /\ \E i, j \in DOMAIN tbl.indices :
       /\ InDelete(tbl.indices[i].State)
       /\ tbl.indices[j].State = StatePublic
       /\ tbl.indices[i].Columns = tbl.indices[j].Columns
       /\ \E c \in DOMAIN tbl.indices[i].Columns :
            tbl.indices[i].Columns[c] \in last.touched
       /\ FetchValues(tbl.indices[j], last.r) # FetchValues(tbl.indices[j], last.old)
       /\ EntryFor(txn, tbl.indices[j], FetchValues(tbl.indices[j], last.r), last.h)
       /\ ~EntryFor(last.pre, tbl.indices[j],
                    FetchValues(tbl.indices[j], last.r), last.h)
       /\ IndexEntries(txn, tbl.indices[i]) = {}

\* Every column and every index of the table is Public.
AllPublicWithIndices(t) ==
  /\ AllPublic(t)
  /\ \A i \in DOMAIN t.indices : t.indices[i].State = StatePublic

\* The RemoveRecord(h, r) that follows the AddRecord(r) of last on the same
\* transaction, no step of it failing for a reason of the store's.
RemoveAfterAdd == RemoveRecord(tbl, txn, strict, last.ret, last.r, "none")

\* C24: on a table whose columns and indices are all Public and a store
\* that reports the delete of an absent key, after a successful AddRecord(r)
\* with handle h, RemoveRecord(h, r) returns no error and leaves no row-lock
\* key, no column key and no index entry of h.
C24_InsertThenDeleteClean ==
  (last.op = "add" /\ IsNil(last.err) /\ strict /\ AllPublicWithIndices(tbl))
  => /\ IsNil(RemoveAfterAdd.err)
     /\ RowGone(tbl, RemoveAfterAdd.st.txn, last.ret, last.r)

\* Some column in DeleteOnly or DeleteReorganization state has a smaller
\* offset than a Public column whose offset is in touched.
DeletedBeforeTouched(t, touched) ==
  \E i, j \in DOMAIN t.Columns :
    /\ InDelete(t.Columns[i].State)
    /\ t.Columns[j].State = StatePublic
    /\ t.Columns[j].Offset \in touched
    /\ t.Columns[i].Offset < t.Columns[j].Offset

\* C25: on a table with a DeleteOnly or DeleteReorganization column at a
\* smaller offset than a touched Public column, an UpdateRecord in which no
\* step of the store fails stays inside the new-row buffer and stores, for
\* each touched Public column, newData at the column's offset.
C25_UpdateWithDeletedColumn ==
  (/\ last.op = "update"
   /\ last.fault = "none"
   /\ DeletedBeforeTouched(tbl, last.touchedOut))
  => /\ last.err # ErrPanic
     /\ IsNil(last.err) =>
          \A j \in DOMAIN Cols(tbl) :
            Cols(tbl)[j].Offset \in last.touched =>
              ColumnHolds(txn, last.h, Cols(tbl)[j],
                          last.r[Cols(tbl)[j].Offset + 1])

====
